---- MODULE Spec2Model ----
(***************************************************************************)
(* Model of the notebook megalineMLFinal.ipynb: load the CSV, split it     *)
(* into training / validation / test partitions, sweep the decision-tree   *)
(* depth and the random-forest estimator count on the validation           *)
(* partition, evaluate a thresholded linear regression, and score the      *)
(* chosen random forest on the test partition.                             *)
(*                                                                         *)
(* Conventions.                                                            *)
(*  - A frame (features_*, with its target_* column) is the sequence of    *)
(*    the pandas index values of its rows; target_* is read off the same   *)
(*    rows (IsUltra).                                                      *)
(*  - An accuracy is the NUMBER of correct predictions; accuracy_score     *)
(*    divides it by the length of the scored partition, which is the same  *)
(*    for every candidate of a sweep, so comparing counts is comparing     *)
(*    accuracies.                                                          *)
(*  - The CSV file and what the library's fitted models score on it are    *)
(*    the environment: the record `dataset`, chosen in Init and never      *)
(*    changed (every seed in the notebook is fixed, so a run is a          *)
(*    function of the file).                                               *)
(*  - A Python name that is not bound yet has the value Undef.             *)
(***************************************************************************)
EXTENDS Integers, Sequences, FiniteSets

VARIABLES
    pc,               \* the cell (and loop position) that runs next
    idx,              \* iterations of the current for loop completed
    dataset,          \* the environment: the CSV and the library's outcomes
    data,             \* the loaded frame
    features_train_val, features_test,      \* first split
    features_train, features_valid,         \* second split
    depth, est,       \* loop variable / tree depth, estimator count
    accuracy,         \* validation accuracy of the last evaluated model
    best_accuracy, best_depth, best_estimators, best_est,
    predictions_valid, predictions_binary,  \* linear-regression cell
    best_model, accuracy_test,              \* test cell
    out,              \* the lines printed so far
    used,             \* the partitions the last executed cell step read
    error             \* the exception that aborted the run, if any

vars == << pc, idx, dataset, data, features_train_val, features_test,
           features_train, features_valid, depth, est, accuracy,
           best_accuracy, best_depth, best_estimators, best_est,
           predictions_valid, predictions_binary, best_model, accuracy_test,
           out, used, error >>

\* ------------------------------------------------------------------ bounds
\* rows of the small synthetic datasets
SmallRows == 10
\* the permutations the seeded shuffle may be: rotations by 0..MaxShuffle
MaxShuffle == 2
\* period of the pattern of continuous predictions of the linear regression
LrPatLen == 2

\* --------------------------------------------------------- program constants
\* rows of the documented CSV (RangeIndex: 3214 entries)
DocumentedRows == 3214
\* test_size=0.20 and test_size=0.25, in percent
TestSizePct1 == 20
TestSizePct2 == 25
\* random_state of both splits and of every model
Seed == 12345
\* depth = 3 of both random-forest sweeps
ForestDepth == 3
\* n_estimators=15, max_depth=3 of the test cell
TestEstimators == 15
TestDepth == 3
\* predictions are kept in tenths; the threshold 0.5 is 5 tenths
ThresholdTenths == 5

\* a name that is not bound
Undef == -1

\* ---------------------------------------------------------------- helpers
\* Python's range(start, stop, step), step > 0, as a sequence
Range(start, stop, step) ==
    IF stop <= start THEN << >>
    ELSE [k \in 1..((stop - start + step - 1) \div step) |-> start + (k - 1) * step]

\* for depth in range(1,6)
DepthRange == Range(1, 6, 1)
\* for est in range(10, 51, 10)
EstRange == Range(10, 51, 10)
\* for est in range(1, 21)
EstRange2 == Range(1, 21, 1)

SeqToSet(s) == { s[i] : i \in DOMAIN s }

\* the largest element of a non-empty set of integers
SetMax(S) == CHOOSE m \in S : \A x \in S : x <= m

\* rng.permutation(n) of the seeded generator: positions 1..n, here the
\* rotation by `shuffle`; which permutation the seed gives is the dataset's
\* choice, the same for every call with the same n
Permutation(n, shuffle) == [i \in 1..n |-> ((i - 1 + shuffle) % n) + 1]

\* n_test = ceil(test_size * n_samples)
NTestMutFloor(n, pct) == (n * pct) \div 100
NTest(n, pct) == (n * pct + 99) \div 100

\* train_test_split(frame, test_size=pct/100, random_state=Seed): the first
\* n_test positions of the permutation are the test rows, the rest train
TrainTestSplitMutOverlap(frame, pct, shuffle) ==
    LET n      == Len(frame)
        n_test == NTest(n, pct)
        perm   == Permutation(n, shuffle)
    IN  [ test  |-> [i \in 1..n_test |-> frame[perm[i]]],
          train |-> [i \in 1..(n - n_test) |-> frame[perm[n_test + i - 1]]] ]
TrainTestSplit(frame, pct, shuffle) ==
    LET n      == Len(frame)
        n_test == NTest(n, pct)
        perm   == Permutation(n, shuffle)
    IN  [ test  |-> [i \in 1..n_test |-> frame[perm[i]]],
          train |-> [i \in 1..(n - n_test) |-> frame[perm[n_test + i]]] ]

\* sizes of the three partitions of a CSV of n rows
TestSize(n) == NTest(n, TestSizePct1)
ValidSize(n) == NTest(n - TestSize(n), TestSizePct2)
TrainSize(n) == n - TestSize(n) - ValidSize(n)

\* ------------------------------------------------------------ environment
\* accuracies printed by the recorded run, times 643 (the validation size):
\* decision tree at depths 1..5
RecordedTree == << 475, 487, 492, 491, 488 >>
\* random forest at depth 3, estimators 1..20
RecordedForest2 ==
    << 487, 487, 489, 489, 489, 492, 494, 495, 494, 496,
       498, 494, 498, 495, 500, 494, 497, 495, 497, 496 >>
\* random forest at depth 3, estimators 10, 20, 30, 40, 50
RecordedForest == << 496, 496, 495, 496, 493 >>
\* Test Accuracy: 0.7838258164852255 of 643
RecordedTest == 504

\* every estimator count either forest sweep fits, in one list
ForestKeys == EstRange2 \o SelectSeq(EstRange, LAMBDA e : e \notin SeqToSet(EstRange2))

\* position of a value in a sequence without repetitions (0 when absent)
IndexOf(s, x) == IF \E i \in DOMAIN s : s[i] = x
                 THEN CHOOSE i \in DOMAIN s : s[i] = x ELSE 0

RecordedForestTable ==
    [e \in SeqToSet(ForestKeys) |->
        IF e \in SeqToSet(EstRange2) THEN RecordedForest2[IndexOf(EstRange2, e)]
        ELSE RecordedForest[IndexOf(EstRange, e)]]

\* continuous predictions, in tenths: below 0, just below, at and just above
\* the threshold, above 1
PredValues == { -2, 4, 5, 6, 12 }

\* a table that scores a at the p-th candidate, b at the q-th and c elsewhere
TwoPeak(keys, p, q, a, b, c) ==
    [k \in SeqToSet(keys) |->
        IF k = keys[((p - 1) % Len(keys)) + 1] THEN a
        ELSE IF k = keys[((q - 1) % Len(keys)) + 1] THEN b ELSE c]

Csv(rows, shuffle, tree, forest, test_correct, lr_pattern) ==
    [ loadable |-> TRUE, rows |-> rows, shuffle |-> shuffle, ultra_every |-> 3,
      tree |-> tree, forest |-> forest, test_correct |-> test_correct,
      lr_pattern |-> lr_pattern ]

\* CSVs of the documented size with the recorded validation accuracies; the
\* test accuracy is the recorded one or lies at the sanity floor
DocumentedCsvs ==
    { Csv(DocumentedRows, s, [d \in 1..5 |-> RecordedTree[d]], RecordedForestTable,
          t, << 4, 6 >>) :
        s \in 0..MaxShuffle,
        t \in { RecordedTest, TestSize(DocumentedRows) \div 2,
                TestSize(DocumentedRows) \div 2 + 1 } }

\* small CSVs whose validation accuracies take every value at up to two
\* candidates of each sweep
SweepCsvs ==
    { Csv(SmallRows, 0,
          TwoPeak(DepthRange, pq[1], pq[2], abc[1], abc[2], abc[3]),
          TwoPeak(ForestKeys, pq[1], pq[2], abc[1], abc[2], abc[3]),
          TestSize(SmallRows), << 4, 6 >>) :
        pq \in { x \in (1..Len(ForestKeys)) \X (1..Len(ForestKeys)) : x[1] <= x[2] },
        abc \in (0..ValidSize(SmallRows)) \X (0..ValidSize(SmallRows))
                  \X (0..ValidSize(SmallRows)) }

\* small CSVs with every test accuracy, regression output and shuffle
EvalCsvs ==
    { Csv(SmallRows, s, [d \in 1..5 |-> 1], [e \in SeqToSet(ForestKeys) |-> 1],
          t, lr) :
        s \in 0..MaxShuffle,
        t \in 0..TestSize(SmallRows),
        lr \in [1..LrPatLen -> PredValues] }

\* a file that is missing or malformed
BadCsv == [ Csv(0, 0, [d \in 1..5 |-> 0], [e \in SeqToSet(ForestKeys) |-> 0],
                0, << 4, 6 >>) EXCEPT !.loadable = FALSE ]

Datasets == DocumentedCsvs \cup SweepCsvs \cup EvalCsvs \cup { BadCsv }

\* is_ultra of a row
IsUltra(row) == IF row % dataset.ultra_every = 0 THEN 1 ELSE 0

\* ---------------------------------------------------------- library models
NoModel == [ family |-> "none", n_estimators |-> Undef, max_depth |-> Undef,
             random_state |-> Undef ]
\* DecisionTreeClassifier(random_state=12345, max_depth=d)
DecisionTreeClassifier(d) ==
    [ family |-> "tree", n_estimators |-> 1, max_depth |-> d, random_state |-> Seed ]
\* RandomForestClassifier(random_state=12345, n_estimators=e, max_depth=d)
RandomForestClassifier(e, d) ==
    [ family |-> "forest", n_estimators |-> e, max_depth |-> d, random_state |-> Seed ]

\* accuracy_score(target_<part>, model.fit(train).predict(features_<part>)):
\* what the dataset makes the fitted model score on the partition
AccuracyOn(model, part) ==
    IF part = "test" THEN dataset.test_correct
    ELSE IF model.family = "tree" THEN dataset.tree[model.max_depth]
    ELSE dataset.forest[model.n_estimators]

\* the partition a sweep iteration predicts and scores on
SweepScoredMutTest == "test"
SweepScored == "valid"
\* the partition the test cell predicts and scores on
TestScored == "test"

\* if accuracy > best_accuracy
BetterMutLess(acc, best) == acc < best
Better(acc, best) == acc > best

\* the body of that if: the candidate and its accuracy become the best ones;
\* otherwise both are left as they are
UpdateMutKeepAccuracy(acc, cand, best_acc, best_cand) ==
    IF Better(acc, best_acc) THEN [ accuracy |-> best_acc, param |-> cand ]
    ELSE [ accuracy |-> best_acc, param |-> best_cand ]
Update(acc, cand, best_acc, best_cand) ==
    IF Better(acc, best_acc) THEN [ accuracy |-> acc, param |-> cand ]
    ELSE [ accuracy |-> best_acc, param |-> best_cand ]

\* (predictions_valid > 0.5).astype(int), one element
BinarizeMutGeq(p) == IF p >= ThresholdTenths THEN 1 ELSE 0
Binarize(p) == IF p > ThresholdTenths THEN 1 ELSE 0

\* a printed line
Line(cell, label, param, value) ==
    [ cell |-> cell, label |-> label, param |-> param, value |-> value ]

\* ------------------------------------------------------------------ state
Init ==
    /\ dataset \in Datasets
    /\ pc = "load"
    /\ idx = 0
    /\ data = << >>
    /\ features_train_val = << >>
    /\ features_test = << >>
    /\ features_train = << >>
    /\ features_valid = << >>
    /\ depth = Undef
    /\ est = Undef
    /\ accuracy = Undef
    /\ best_accuracy = Undef
    /\ best_depth = Undef
    /\ best_estimators = Undef
    /\ best_est = Undef
    /\ predictions_valid = << >>
    /\ predictions_binary = << >>
    /\ best_model = NoModel
    /\ accuracy_test = Undef
    /\ out = << >>
    /\ used = {}
    /\ error = "none"

frames == << data, features_train_val, features_test, features_train, features_valid >>
sweepVars == << depth, est, accuracy, best_accuracy, best_depth, best_estimators,
                best_est >>
lrVars == << predictions_valid, predictions_binary >>
testVars == << best_model, accuracy_test >>

\* ---------------------------------------------------------------- actions
\* the Load Data cell with the exception of pd.read_csv caught: the run goes
\* on to the next cell with an empty frame
LoadDataMutSwallow ==
    /\ pc = "load"
    /\ IF dataset.loadable
       THEN /\ data' = [i \in 1..dataset.rows |-> i - 1]
            /\ out' = Append(out, Line("load", "entries", Undef, dataset.rows))
       ELSE UNCHANGED << data, out >>
    /\ pc' = "split"
    /\ error' = error
    /\ used' = {}
    /\ UNCHANGED << idx, dataset, features_train_val, features_test, features_train,
                    features_valid, sweepVars, lrVars, testVars >>

\* Load Data cell: pd.read_csv raises when the file cannot be read, and the
\* run stops there
LoadData ==
    /\ pc = "load"
    /\ IF dataset.loadable
       THEN /\ data' = [i \in 1..dataset.rows |-> i - 1]
            /\ out' = Append(out, Line("load", "entries", Undef, dataset.rows))
            /\ pc' = "split"
            /\ error' = error
       ELSE /\ error' = "FileNotFoundError"
            /\ pc' = "error"
            /\ UNCHANGED << data, out >>
    /\ used' = {}
    /\ UNCHANGED << idx, dataset, features_train_val, features_test, features_train,
                    features_valid, sweepVars, lrVars, testVars >>

\* Split cell
SplitData ==
    /\ pc = "split"
    /\ LET first  == TrainTestSplit(data, TestSizePct1, dataset.shuffle)
           second == TrainTestSplit(first.train, TestSizePct2, dataset.shuffle)
       IN  /\ features_train_val' = first.train
           /\ features_test' = first.test
           /\ features_train' = second.train
           /\ features_valid' = second.test
           /\ out' = out \o << Line("split", "Training Size", Undef, Len(second.train)),
                               Line("split", "Validation Size", Undef, Len(second.test)),
                               Line("split", "Test Size", Undef, Len(first.test)) >>
    /\ pc' = "dt_init"
    /\ used' = {}
    /\ UNCHANGED << idx, dataset, data, sweepVars, lrVars, testVars, error >>

\* Decision Tree cell, the two assignments before the loop
DecisionTreeInit ==
    /\ pc = "dt_init"
    /\ best_accuracy' = 0
    /\ best_depth' = 0
    /\ idx' = 0
    /\ pc' = "dt_loop"
    /\ used' = {}
    /\ UNCHANGED << dataset, frames, depth, est, accuracy, best_estimators, best_est,
                    lrVars, testVars, out, error >>

\* Decision Tree cell, one iteration of the loop
DecisionTreeIter ==
    /\ pc = "dt_loop"
    /\ idx < Len(DepthRange)
    /\ LET d   == DepthRange[idx + 1]
           acc == AccuracyOn(DecisionTreeClassifier(d), SweepScored)
       IN  /\ depth' = d
           /\ accuracy' = acc
           /\ out' = Append(out, Line("dt", "max_depth", best_depth, acc))
           /\ LET u == Update(acc, d, best_accuracy, best_depth)
              IN  best_accuracy' = u.accuracy /\ best_depth' = u.param
    /\ idx' = idx + 1
    /\ used' = { "train", SweepScored }
    /\ UNCHANGED << pc, dataset, frames, est, best_estimators, best_est, lrVars,
                    testVars, error >>

\* Decision Tree cell, the prints after the loop
DecisionTreeReport ==
    /\ pc = "dt_loop"
    /\ idx = Len(DepthRange)
    /\ out' = Append(out, Line("dt", "best", best_depth, best_accuracy))
    /\ pc' = "rf_init"
    /\ used' = {}
    /\ UNCHANGED << idx, dataset, frames, sweepVars, lrVars, testVars, error >>

\* Random Forest / Random Forest 2 cells, the assignments before the loop
ForestInit(here, loop) ==
    /\ pc = here
    /\ best_accuracy' = 0
    /\ best_estimators' = 0
    /\ depth' = ForestDepth
    /\ idx' = 0
    /\ pc' = loop
    /\ used' = {}
    /\ UNCHANGED << dataset, frames, est, accuracy, best_depth, best_est, lrVars,
                    testVars, out, error >>

\* Random Forest / Random Forest 2 cells, one iteration of the loop
ForestIter(loop, cell, range) ==
    /\ pc = loop
    /\ idx < Len(range)
    /\ LET e   == range[idx + 1]
           acc == AccuracyOn(RandomForestClassifier(e, depth), SweepScored)
       IN  /\ est' = e
           /\ accuracy' = acc
           /\ out' = Append(out, Line(cell, "Estimators", e, acc))
           /\ LET u == Update(acc, e, best_accuracy, best_est)
              IN  best_est' = u.param /\ best_accuracy' = u.accuracy
    /\ idx' = idx + 1
    /\ used' = { "train", SweepScored }
    /\ UNCHANGED << pc, dataset, frames, depth, best_depth, best_estimators, lrVars,
                    testVars, error >>

\* Random Forest / Random Forest 2 cells, the prints after the loop; printing
\* best_est raises NameError when no iteration has bound it
ForestReport(loop, cell, range, next) ==
    /\ pc = loop
    /\ idx = Len(range)
    /\ IF best_est = Undef
       THEN /\ out' = Append(out, Line(cell, "Best Parameters", Undef, Undef))
            /\ error' = "NameError"
            /\ pc' = "error"
       ELSE /\ out' = out \o << Line(cell, "Best Parameters", Undef, Undef),
                                Line(cell, "best", best_est, best_accuracy) >>
            /\ error' = error
            /\ pc' = next
    /\ used' = {}
    /\ UNCHANGED << idx, dataset, frames, sweepVars, lrVars, testVars >>

RandomForestInit == ForestInit("rf_init", "rf_loop")
RandomForestIter == ForestIter("rf_loop", "rf", EstRange)
RandomForestReport == ForestReport("rf_loop", "rf", EstRange, "rf2_init")
RandomForest2Init == ForestInit("rf2_init", "rf2_loop")
RandomForest2Iter == ForestIter("rf2_loop", "rf2", EstRange2)
RandomForest2Report == ForestReport("rf2_loop", "rf2", EstRange2, "lr")

\* Linear Regression cell
LinearRegressionCell ==
    /\ pc = "lr"
    /\ LET raw == [i \in 1..Len(features_valid) |->
                      dataset.lr_pattern[((i - 1) % Len(dataset.lr_pattern)) + 1]]
           bin == [i \in 1..Len(raw) |-> Binarize(raw[i])]
           acc == Cardinality({ i \in 1..Len(bin) : bin[i] = IsUltra(features_valid[i]) })
       IN  /\ predictions_valid' = raw
           /\ predictions_binary' = bin
           /\ accuracy' = acc
           /\ out' = Append(out, Line("lr", "Accuracy", Undef, acc))
    /\ pc' = "test"
    /\ used' = { "train", "valid" }
    /\ UNCHANGED << idx, dataset, frames, depth, est, best_accuracy, best_depth,
                    best_estimators, best_est, testVars, error >>

\* Test Model cell
TestModel ==
    /\ pc = "test"
    /\ best_model' = RandomForestClassifier(TestEstimators, TestDepth)
    /\ accuracy_test' = AccuracyOn(best_model', TestScored)
    /\ out' = Append(out, Line("test", "Test Accuracy", Undef, accuracy_test'))
    /\ pc' = "sanity"
    /\ used' = { "train", TestScored }
    /\ UNCHANGED << idx, dataset, frames, sweepVars, lrVars, error >>

\* Sanity Test markdown cell: fixed text, whatever the test accuracy was
SanityTest ==
    /\ pc = "sanity"
    /\ out' = Append(out, Line("sanity", "passes sanity test", Undef, Undef))
    /\ pc' = "done"
    /\ used' = {}
    /\ UNCHANGED << idx, dataset, frames, sweepVars, lrVars, testVars, error >>

Next ==
    \/ LoadData
    \/ SplitData
    \/ DecisionTreeInit
    \/ DecisionTreeIter
    \/ DecisionTreeReport
    \/ RandomForestInit
    \/ RandomForestIter
    \/ RandomForestReport
    \/ RandomForest2Init
    \/ RandomForest2Iter
    \/ RandomForest2Report
    \/ LinearRegressionCell
    \/ TestModel
    \/ SanityTest

Spec == Init /\ [][Next]_vars

\* ----------------------------------------------------- notions of the claims
\* the three sweeps: loop position, candidates, the cells that follow while
\* the sweep's best_accuracy is still in place, and where its best
\* hyperparameter is still in place
Sweeps == { "dt", "rf", "rf2" }
LoopOf(sw) == IF sw = "dt" THEN "dt_loop" ELSE IF sw = "rf" THEN "rf_loop" ELSE "rf2_loop"
Candidates(sw) == IF sw = "dt" THEN DepthRange ELSE IF sw = "rf" THEN EstRange ELSE EstRange2
\* the validation accuracy the dataset gives a candidate of the sweep
CandidateAccuracy(sw, c) == IF sw = "dt" THEN dataset.tree[c] ELSE dataset.forest[c]
BestParam(sw) == IF sw = "dt" THEN best_depth ELSE best_est
\* the sweep is running, k iterations done
Running(sw) == pc = LoopOf(sw)
\* the loop of the sweep is over and no later cell has reset best_accuracy
Ended(sw) ==
    \/ pc = LoopOf(sw) /\ idx = Len(Candidates(sw))
    \/ sw = "dt" /\ pc = "rf_init"
    \/ sw = "rf" /\ pc = "rf2_init"
    \/ sw = "rf2" /\ pc \in { "lr", "test", "sanity", "done" }
\* the accuracies of the first k candidates
AccuraciesOfFirst(sw, k) == { CandidateAccuracy(sw, Candidates(sw)[j]) : j \in 1..k }
\* the first candidate, in iteration order, that attains the sweep's maximum
FirstOfMaxima(sw) ==
    LET cs == Candidates(sw)
        m  == SetMax(AccuraciesOfFirst(sw, Len(cs)))
        j  == CHOOSE i \in 1..Len(cs) :
                /\ CandidateAccuracy(sw, cs[i]) = m
                /\ \A h \in 1..(i - 1) : CandidateAccuracy(sw, cs[h]) < m
    IN  cs[j]

\* C1: in each sweep, after every iteration best_accuracy is the maximum of
\* the accuracies evaluated so far, and once the sweep has ended best_accuracy
\* is at least the validation accuracy of every candidate of the sweep.
C1_BestIsMaximum ==
    \A sw \in Sweeps :
        /\ (Running(sw) /\ idx > 0) =>
              best_accuracy = SetMax(AccuraciesOfFirst(sw, idx))
        /\ Ended(sw) =>
              \A j \in 1..Len(Candidates(sw)) :
                  best_accuracy >= CandidateAccuracy(sw, Candidates(sw)[j])

\* a sweep ended whose last candidate was strictly better than all before it
C1_Witness ==
    /\ Ended("rf2")
    /\ \A j \in 1..(Len(EstRange2) - 1) :
          dataset.forest[EstRange2[j]] < dataset.forest[EstRange2[Len(EstRange2)]]
    /\ best_accuracy = dataset.forest[EstRange2[Len(EstRange2)]]
    /\ best_accuracy > 0

\* C2: tie-break of a sweep: only a strictly higher accuracy replaces the
\* best, so when the sweep has ended the hyperparameter it reports is the
\* first candidate, in iteration order, that attains the sweep's maximum
\* accuracy.
C2_ReportsFirstOfMaxima ==
    \A sw \in Sweeps : Ended(sw) => BestParam(sw) = FirstOfMaxima(sw)

\* the first half of C2 alone: an iteration whose accuracy is equal to or
\* lower than best_accuracy leaves the best hyperparameter and best_accuracy
\* as they were
C2_IgnoredIterationKeepsBest ==
    [][ \A sw \in Sweeps :
          (Running(sw) /\ idx' = idx + 1 /\ accuracy' <= best_accuracy) =>
              UNCHANGED << best_accuracy, best_depth, best_est >> ]_vars

\* C3: the final evaluation refits the configuration the random-forest sweep
\* over estimators 1..20 selected: the fitted model's estimator count is the
\* sweep's best_est, its depth 3 and its seed 12345.
C3_RefitsSelected ==
    pc \in { "sanity", "done" } =>
        /\ best_model.n_estimators = best_est
        /\ best_model.max_depth = 3
        /\ best_model.random_state = 12345

\* C4: once the CSV of 3,214 rows is split, every row is in exactly one of
\* the training, validation and test partitions, their sizes are 1928, 643
\* and 643 and sum to 3,214, and no later step changes a partition.
Split == pc \notin { "load", "split", "error" }
C4_PartitionState ==
    (Split /\ dataset.rows = 3214) =>
        LET train == SeqToSet(features_train)
            valid == SeqToSet(features_valid)
            test  == SeqToSet(features_test)
        IN  /\ train \cup valid \cup test = 0..3213
            /\ train \cap valid = {}
            /\ train \cap test = {}
            /\ valid \cap test = {}
            /\ Len(features_train) = 1928 /\ Cardinality(train) = 1928
            /\ Len(features_valid) = 643 /\ Cardinality(valid) = 643
            /\ Len(features_test) = 643 /\ Cardinality(test) = 643
            /\ Len(features_train) + Len(features_valid) + Len(features_test) = 3214
C4_PartitionFrozen ==
    Split => UNCHANGED << features_train, features_valid, features_test >>
C4_Partition == [] C4_PartitionState /\ [][C4_PartitionFrozen]_vars

\* the run on a CSV of 3,214 rows is over, split as documented
C4_Witness ==
    /\ pc = "done"
    /\ dataset.rows = 3214
    /\ Len(features_train) = 1928
    /\ Len(data) = 3214

\* C5: the test partition is never used for selection: no step of a sweep
\* or of the linear-regression cell reads the test partition, every best
\* hyperparameter and best_accuracy comes from a model scored on the
\* validation partition, and the test-scoring step leaves every best
\* hyperparameter and best_accuracy unchanged.
\* the step just taken was a sweep iteration or the linear-regression cell
SelectionStep ==
    \/ \E sw \in Sweeps : Running(sw) /\ idx > 0
    \/ pc = "test"
C5_SelectionState ==
    /\ SelectionStep => ("test" \notin used /\ used = { "train", "valid" })
    /\ \A sw \in Sweeps :
          (Running(sw) /\ idx > 0) =>
              /\ accuracy = CandidateAccuracy(sw, Candidates(sw)[idx])
              /\ best_accuracy > 0 =>
                    /\ BestParam(sw) \in SeqToSet(Candidates(sw))
                    /\ best_accuracy = CandidateAccuracy(sw, BestParam(sw))
C5_TestStepFrame ==
    pc = "test" => UNCHANGED << best_accuracy, best_depth, best_estimators, best_est >>
C5_TestNeverSelects == [] C5_SelectionState /\ [][C5_TestStepFrame]_vars

\* the test cell has scored the model on the test partition after three
\* sweeps that each found a best candidate
C5_Witness ==
    /\ pc = "sanity"
    /\ "test" \in used
    /\ accuracy_test = dataset.test_correct
    /\ best_depth \in SeqToSet(DepthRange)
    /\ best_est \in SeqToSet(EstRange2)
    /\ dataset.test_correct # dataset.forest[best_est]

\* C6: every per-iteration line of a sweep shows the accuracy together with
\* the hyperparameter value it was measured for: the depth printed by
\* iteration d of the decision-tree sweep is d, and the estimator count
\* printed by a random-forest iteration is the count just evaluated.
C6_LineShowsEvaluated ==
    \A sw \in Sweeps :
        (Running(sw) /\ idx > 0) =>
            /\ out[Len(out)].value = CandidateAccuracy(sw, Candidates(sw)[idx])
            /\ out[Len(out)].param = Candidates(sw)[idx]

\* the half of C6 that holds: the random-forest lines
C6_ForestLineShowsEvaluated ==
    \A sw \in { "rf", "rf2" } :
        (Running(sw) /\ idx > 0) =>
            /\ out[Len(out)].value = CandidateAccuracy(sw, Candidates(sw)[idx])
            /\ out[Len(out)].param = Candidates(sw)[idx]

\* C7: the thresholded regression classifier maps a continuous prediction p
\* to class 1 exactly when p > 0.5 and to class 0 otherwise; a prediction of
\* exactly 0.5 becomes 0, and equal predictions get equal classes.
\* (Predictions are in tenths: 5 is 0.5.)
C7_Threshold ==
    pc \in { "test", "sanity", "done" } =>
        /\ Len(predictions_binary) = Len(features_valid)
        /\ \A i \in DOMAIN predictions_valid :
              /\ predictions_binary[i] \in { 0, 1 }
              /\ predictions_binary[i] = 1 <=> predictions_valid[i] > 5
              /\ predictions_valid[i] = 5 => predictions_binary[i] = 0
        /\ \A i, j \in DOMAIN predictions_valid :
              predictions_valid[i] = predictions_valid[j] =>
                  predictions_binary[i] = predictions_binary[j]

\* the regression predicted exactly 0.5 for one row and more for another
C7_Witness ==
    /\ pc = "test"
    /\ \E i, j \in DOMAIN predictions_valid :
          /\ predictions_valid[i] = 5 /\ predictions_binary[i] = 0
          /\ predictions_valid[j] > 5 /\ predictions_binary[j] = 1

\* C8: a run whose final test accuracy is at most 0.5 does not end with the
\* report that the model passes the sanity test.
ReportsSanityPassed == \E k \in DOMAIN out : out[k].cell = "sanity"
C8_SanityFloorEnforced ==
    (pc = "done" /\ 2 * accuracy_test <= Len(features_test)) => ~ReportsSanityPassed

\* C9: on the recorded validation accuracies (estimators 1..20 at depth 3,
\* maximum 500/643 at 15 estimators) the second random-forest sweep ends with
\* best_est 15 and best_accuracy the accuracy measured at 15.
RecordedRun ==
    /\ dataset.rows = 3214
    /\ dataset.tree = [d \in 1..5 |-> RecordedTree[d]]
    /\ dataset.forest = RecordedForestTable
C9_RecordedForestSelects15 ==
    (RecordedRun /\ Ended("rf2")) =>
        /\ best_est = 15
        /\ best_accuracy = 500
        /\ best_accuracy = dataset.forest[15]
        /\ 500 = SetMax({ RecordedForest2[k] : k \in 1..20 })

C9_Witness ==
    /\ RecordedRun
    /\ pc = "lr"
    /\ best_est = 15
    /\ Len(features_valid) = 643

\* C10: on the recorded validation accuracies (depths 1..5 scoring 475, 487,
\* 492, 491 and 488 of 643) the decision-tree sweep ends with best_depth 3
\* and best_accuracy the accuracy measured at depth 3.
C10_RecordedTreeSelects3 ==
    (RecordedRun /\ Ended("dt")) =>
        /\ dataset.tree = [d \in 1..5 |-> << 475, 487, 492, 491, 488 >>[d]]
        /\ best_depth = 3
        /\ best_accuracy = 492
        /\ best_accuracy = dataset.tree[3]

C10_Witness ==
    /\ RecordedRun
    /\ pc = "rf_init"
    /\ best_depth = 3
    /\ Len(out) >= 5
    /\ out[Len(out)].label = "best"

\* C11: when the CSV cannot be loaded the run aborts at the load step: the
\* failure is propagated, nothing retries or recovers, no split, sweep
\* iteration or final evaluation is ever executed and no best configuration
\* or accuracy is reported.
C11_NothingRanAfterFailedLoad ==
    ~dataset.loadable =>
        /\ pc \in { "load", "error" }
        /\ pc = "error" => error = "FileNotFoundError"
        /\ data = << >>
        /\ features_train_val = << >> /\ features_test = << >>
        /\ features_train = << >> /\ features_valid = << >>
        /\ idx = 0
        /\ depth = Undef /\ est = Undef /\ accuracy = Undef
        /\ best_accuracy = Undef /\ best_depth = Undef
        /\ best_estimators = Undef /\ best_est = Undef
        /\ predictions_valid = << >> /\ predictions_binary = << >>
        /\ best_model = NoModel /\ accuracy_test = Undef
        /\ out = << >>
        /\ used = {}
\* an aborted run takes no further step
C11_AbortIsFinal == pc # "error"
C12_ReportsOwnCandidate ==
    \A sw \in Sweeps :
        Ended(sw) =>
            /\ BestParam(sw) # Undef
            /\ BestParam(sw) \in SeqToSet(Candidates(sw))
            /\ best_accuracy = CandidateAccuracy(sw, BestParam(sw))

\* the three parts of C12, each violated on its own: the decision-tree sweep
\* never ends on its initial depth 0
C12_TreeNeverReportsInitialDepth == ~(Ended("dt") /\ best_depth = 0)
\* the first random-forest sweep never ends with best_est unbound (its
\* report then raises NameError)
C12_ForestNeverReportsUnbound ==
    ~(pc = "error" /\ error = "NameError" /\ best_est = Undef)
\* the second random-forest sweep never reports the best_est of the first
C12_Forest2NeverReportsStale ==
    ~(/\ pc = "lr"
      /\ best_est \notin SeqToSet(EstRange2)
      /\ best_est \in SeqToSet(EstRange)
      /\ out[Len(out)] = Line("rf2", "best", best_est, 0))

\* what holds of the code: a sweep in which some candidate scores above 0
\* ends on one of its own candidates, with that candidate's accuracy
C12_OwnCandidateAboveZero ==
    \A sw \in Sweeps :
        (Ended(sw) /\ best_accuracy > 0) =>
            /\ BestParam(sw) \in SeqToSet(Candidates(sw))
            /\ best_accuracy = CandidateAccuracy(sw, BestParam(sw))

====
